---------------------------- MODULE Spec2Model ----------------------------
(***************************************************************************)
(* A model of pdf-redactor (src/redactor/__init__.py):                     *)
(*                                                                         *)
(*   - ReferenceRedactor: the region consolidation of one page             *)
(*     (_cluster_and_merge_boxes, _clean_cluster), the markup parser and   *)
(*     the redaction of one document (process);                            *)
(*   - BatchRedactionManager: the two-phase concurrent pipeline (run).     *)
(*                                                                         *)
(* Coordinates are integers (PDF points): on them the float arithmetic of  *)
(* the program is exact.  The ratio 0.16 is kept as 16/100 and the median  *)
(* of the gaps is kept doubled, so that no fraction is ever rounded.       *)
(***************************************************************************)
EXTENDS Integers, Sequences, FiniteSets, TLC

VARIABLES
    \* ---- region consolidation of one page (ReferenceRedactor) ----
    rgPc,       \* "input" before _cluster_and_merge_boxes is called, "done" after
    rgBoxes,    \* the page's ordered box list, as passed in
    rgW,        \* page_width
    rgH,        \* page_height
    rgCalls,    \* the calls of _clean_cluster made so far: <<[in, out], ...>>
    rgMerged,   \* the returned merged_boxes
    \* ---- the batch pipeline (BatchRedactionManager) ----
    pc,         \* where run() is
    cfg,        \* [pdf_dir, xml_dir, redacted_dir, workers]
    fs,         \* the file system: path -> content, a path being <<dir, name>>
    pdfFiles,   \* pdf_files_to_process, once listed
    xmlFiles,   \* xml_files_to_process, once listed
    jobs1,      \* phase 1 futures: filename -> [st, res]
    jobs2,      \* phase 2 futures: filename -> [st, res, coords]
    \* ---- the redaction of one document (ReferenceRedactor.process) ----
    dcPc,       \* "input", "parsed" after _extract_raw_reference_boxes, "done"
    dcMarkup,   \* the markup document at xml_path
    dcSrc,      \* the content of pdf_path, NoFile when it does not exist
    dcIo,       \* what the file system does to the copy or the save
    dcBoxes,    \* boxes_by_page, as returned by the parser
    dcRun       \* [res, coords, out] of process()

rgVars == <<rgPc, rgBoxes, rgW, rgH, rgCalls, rgMerged>>
plVars == <<pc, cfg, fs, pdfFiles, xmlFiles, jobs1, jobs2>>
dcVars == <<dcPc, dcMarkup, dcSrc, dcIo, dcBoxes, dcRun>>
vars == <<rgPc, rgBoxes, rgW, rgH, rgCalls, rgMerged,
          pc, cfg, fs, pdfFiles, xmlFiles, jobs1, jobs2,
          dcPc, dcMarkup, dcSrc, dcIo, dcBoxes, dcRun>>

(***************************************************************************)
(* Program constants (src/redactor/__init__.py, lines 12-17).              *)
(***************************************************************************)
HORIZONTAL_THRESHOLD_RATIO_NUM == 16
HORIZONTAL_THRESHOLD_RATIO_DEN == 100
LINE_HEIGHT_MULTIPLIER == 4
VERTICAL_Y_THRESHOLD_TOP == 120
VERTICAL_Y_THRESHOLD_BOTTOM == 80
DELETION_PADDING == 7
DEFAULT_PAGE_WIDTH == 595
DEFAULT_PAGE_HEIGHT == 842

(***************************************************************************)
(* Bounds of the model.                                                    *)
(***************************************************************************)
MaxBoxes == 4       \* longest enumerated box list of one page
MaxDocs == 2        \* most source documents in the source directory
MaxWorkers == 2     \* largest configured worker count
MaxGroups == 3      \* most coordinate groups in one enumerated markup

\* ------------------------------------------------------------------------
\* Generic helpers
\* ------------------------------------------------------------------------
Range(s) == {s[i] : i \in 1..Len(s)}

Front(s) == SubSeq(s, 1, Len(s) - 1)

Last(s) == s[Len(s)]

RECURSIVE SeqsUpTo(_, _)
SeqsUpTo(S, n) ==
    IF n = 0 THEN {<<>>}
    ELSE LET shorter == SeqsUpTo(S, n - 1)
         IN  shorter \cup {Append(s, e) : s \in {t \in shorter : Len(t) = n - 1}, e \in S}

MinOf(S) == CHOOSE m \in S : \A e \in S : m <= e

MaxOf(S) == CHOOSE m \in S : \A e \in S : e <= m

\* ------------------------------------------------------------------------
\* ReferenceRedactor._clean_cluster
\* ------------------------------------------------------------------------

\* list.sort(key=lambda b: b['y']): stable, ascending
InsertByY(sorted, b) ==
    LET k == Cardinality({i \in 1..Len(sorted) : sorted[i].y <= b.y})
    IN  SubSeq(sorted, 1, k) \o <<b>> \o SubSeq(sorted, k + 1, Len(sorted))

RECURSIVE SortByY(_)
SortByY(s) == IF s = <<>> THEN <<>> ELSE InsertByY(SortByY(Front(s)), Last(s))

\* sorted(data) of statistics.median
InsertInt(sorted, v) ==
    LET k == Cardinality({i \in 1..Len(sorted) : sorted[i] <= v})
    IN  SubSeq(sorted, 1, k) \o <<v>> \o SubSeq(sorted, k + 1, Len(sorted))

RECURSIVE SortInts(_)
SortInts(s) == IF s = <<>> THEN <<>> ELSE InsertInt(SortInts(Front(s)), Last(s))

\* the strictly positive consecutive gaps of a y-sorted list
PositiveGaps(s) ==
    LET all == [i \in 1..(Len(s) - 1) |-> s[i + 1].y - s[i].y]
    IN  SelectSeq(all, LAMBDA g : g > 0)

\* statistics.median(gaps), doubled: the middle value, or the mean of the two
\* middle values
MedianTimesTwo(gaps) ==
    LET d == SortInts(gaps)
        n == Len(d)
    IN  IF n % 2 = 1 THEN 2 * d[(n + 1) \div 2]
        ELSE d[n \div 2] + d[n \div 2 + 1]

\* gap > jump_threshold, jump_threshold = median * LINE_HEIGHT_MULTIPLIER
ExceedsJump(gap, med2) == 2 * gap > LINE_HEIGHT_MULTIPLIER * med2

\* the loop that re-partitions the sorted boxes into vertical sub-clusters
RECURSIVE SubClusterLoop(_, _, _, _, _)
SubClusterLoop(s, i, current, subs, med2) ==
    IF i > Len(s) THEN Append(subs, current)
    ELSE IF ExceedsJump(s[i].y - s[i - 1].y, med2)
         THEN SubClusterLoop(s, i + 1, <<s[i]>>, Append(subs, current), med2)
         ELSE SubClusterLoop(s, i + 1, Append(current, s[i]), subs, med2)

\* max(sub_clusters, key=len): the first of the longest
LargestMut(subs) ==
    subs[CHOOSE i \in 1..Len(subs) :
            /\ \A j \in 1..Len(subs) : Len(subs[j]) <= Len(subs[i])
            /\ \A j \in (i + 1)..Len(subs) : Len(subs[j]) < Len(subs[i])]

Largest(subs) ==
    subs[CHOOSE i \in 1..Len(subs) :
            /\ \A j \in 1..Len(subs) : Len(subs[j]) <= Len(subs[i])
            /\ \A j \in 1..(i - 1) : Len(subs[j]) < Len(subs[i])]

InHeaderMut(box) == box.y <= VERTICAL_Y_THRESHOLD_TOP

InHeader(box) == box.y < VERTICAL_Y_THRESHOLD_TOP

InFooter(box, page_height) == box.y > page_height - VERTICAL_Y_THRESHOLD_BOTTOM

\* lines 127-144, on the sorted list and its positive gaps
KeepLargestSubCluster(sorted, gaps) ==
    IF gaps = <<>> THEN sorted
    ELSE Largest(SubClusterLoop(sorted, 2, <<sorted[1]>>, <<>>, MedianTimesTwo(gaps)))

\* lines 126-144: cluster_boxes.sort(...) and what follows
CleanSorted(sorted) == KeepLargestSubCluster(sorted, PositiveGaps(sorted))

CleanCluster(cluster_boxes, page_height) ==
    IF Len(cluster_boxes) <= 1 THEN cluster_boxes
    ELSE IF Len(cluster_boxes) = 2
    THEN SelectSeq(cluster_boxes,
                   LAMBDA box : ~InHeader(box) /\ ~InFooter(box, page_height))
    ELSE CleanSorted(SortByY(cluster_boxes))

\* ------------------------------------------------------------------------
\* ReferenceRedactor._cluster_and_merge_boxes
\* ------------------------------------------------------------------------

\* current_box_left_edge - prev_box_left_edge > page_width * 0.16
StartsNewClusterMut(prev, cur, page_width) ==
    LET d == IF cur.x >= prev.x THEN cur.x - prev.x ELSE prev.x - cur.x
    IN  d * HORIZONTAL_THRESHOLD_RATIO_DEN > page_width * HORIZONTAL_THRESHOLD_RATIO_NUM

StartsNewCluster(prev, cur, page_width) ==
    (cur.x - prev.x) * HORIZONTAL_THRESHOLD_RATIO_DEN
        > page_width * HORIZONTAL_THRESHOLD_RATIO_NUM

\* one call of _clean_cluster and the "if cleaned: clusters.append(cleaned)"
\* that follows it; acc = [clusters, calls]
AcceptCleaned(acc, current, cleaned) ==
    [clusters |-> IF cleaned # <<>> THEN Append(acc.clusters, cleaned)
                  ELSE acc.clusters,
     calls |-> Append(acc.calls, [in |-> current, out |-> cleaned])]

CloseCluster(acc, current, page_height) ==
    AcceptCleaned(acc, current, CleanCluster(current, page_height))

RECURSIVE ClusterLoop(_, _, _, _, _, _)
ClusterLoop(boxes, i, current, acc, page_width, page_height) ==
    IF i > Len(boxes) THEN CloseCluster(acc, current, page_height)
    ELSE IF StartsNewCluster(boxes[i - 1], boxes[i], page_width)
         THEN ClusterLoop(boxes, i + 1, <<boxes[i]>>,
                          CloseCluster(acc, current, page_height),
                          page_width, page_height)
         ELSE ClusterLoop(boxes, i + 1, Append(current, boxes[i]), acc,
                          page_width, page_height)

MergeClusterMut(cluster, id) ==
    LET min_x == MinOf({b.x : b \in Range(cluster)})
        min_y == MinOf({b.y : b \in Range(cluster)})
    IN  [cluster_id |-> id, x |-> min_x, y |-> min_y,
         w |-> MaxOf({b.w : b \in Range(cluster)}),
         h |-> MaxOf({b.h : b \in Range(cluster)})]

\* the union bounding box of one cleaned cluster
MergeCluster(cluster, id) ==
    LET min_x == MinOf({b.x : b \in Range(cluster)})
        min_y == MinOf({b.y : b \in Range(cluster)})
        max_x1 == MaxOf({b.x + b.w : b \in Range(cluster)})
        max_y1 == MaxOf({b.y + b.h : b \in Range(cluster)})
    IN  [cluster_id |-> id, x |-> min_x, y |-> min_y,
         w |-> max_x1 - min_x, h |-> max_y1 - min_y]

\* [clusters, calls, merged]: merged is what the method returns, clusters its
\* local list, calls the trace of its _clean_cluster calls
\* lines 162-170: one merged box per cluster, numbered from 1
MergeClusters(r) ==
    [clusters |-> r.clusters, calls |-> r.calls,
     merged |-> [i \in 1..Len(r.clusters) |-> MergeCluster(r.clusters[i], i)]]

ClusterAndMergeBoxes(boxes, page_width, page_height) ==
    IF boxes = <<>> THEN [clusters |-> <<>>, calls |-> <<>>, merged |-> <<>>]
    ELSE MergeClusters(ClusterLoop(boxes, 2, <<boxes[1]>>,
                                   [clusters |-> <<>>, calls |-> <<>>],
                                   page_width, page_height))


\* ------------------------------------------------------------------------
\* Markup documents (the TEI XML the extraction service returns)
\*
\*   [wellformed : ET.parse succeeds,
\*    back       : the coords attributes of the biblStruct elements under
\*                 tei:back, in document order,
\*    other      : those of the biblStruct elements elsewhere,
\*    surfaces   : the tei:surface elements, <<n, lrx, lry>> each]
\*
\* A coords attribute is a sequence of groups (what split(';') returns), a
\* group a sequence of fields (what split(',') returns), a field the text of
\* a number, Num(v), or NonNumeric, a text that int() and float() reject.
\* ------------------------------------------------------------------------
Num(v) == [numeric |-> TRUE, v |-> v]

NonNumeric == [numeric |-> FALSE, v |-> 0]

IsNumeric(field) == field.numeric

RECURSIVE Flatten(_)
Flatten(ss) == IF ss = <<>> THEN <<>> ELSE ss[1] \o Flatten(Tail(ss))

\* ref_items: the scoped search, else the unscoped one
RefItems(markup) ==
    IF markup.back # <<>> THEN markup.back ELSE markup.other

\* ------------------------------------------------------------------------
\* ReferenceRedactor._extract_raw_reference_boxes
\* the dict page -> [box, ...]; the empty function << >> is the empty dict
\* ------------------------------------------------------------------------
ExtractRawReferenceBoxes(markup) ==
    IF ~markup.wellformed THEN << >>               \* ET.parse raises
    ELSE LET groups == Flatten(RefItems(markup))
             five == SelectSeq(groups, LAMBDA g : Len(g) = 5)
         IN  IF \E i \in 1..Len(five) : \E k \in 1..5 : ~IsNumeric(five[i][k])
             THEN << >>                             \* int()/float() raises ValueError
             ELSE [p \in {five[i][1].v : i \in 1..Len(five)} |->
                      LET mine == SelectSeq(five, LAMBDA g : g[1].v = p)
                      IN  [i \in 1..Len(mine) |->
                              [x |-> mine[i][2].v, y |-> mine[i][3].v,
                               w |-> mine[i][4].v, h |-> mine[i][5].v]]]

\* ------------------------------------------------------------------------
\* ReferenceRedactor._get_page_dimensions
\* ------------------------------------------------------------------------
GetPageDimensions(markup) ==
    IF ~markup.wellformed THEN << >>
    ELSE LET ok == SelectSeq(markup.surfaces,
                             LAMBDA s : /\ \A k \in 1..3 : IsNumeric(s[k])
                                        /\ s[2].v > 0 /\ s[3].v > 0)
         IN  [p \in {ok[i][1].v : i \in 1..Len(ok)} |->
                 LET last == MaxOf({i \in 1..Len(ok) : ok[i][1].v = p})
                 IN  [width |-> ok[last][2].v, height |-> ok[last][3].v]]

\* page_dimensions.get(page_num, {'width': 595, 'height': 842})
PageDim(dims, p) ==
    IF p \in DOMAIN dims THEN dims[p]
    ELSE [width |-> DEFAULT_PAGE_WIDTH, height |-> DEFAULT_PAGE_HEIGHT]

\* ------------------------------------------------------------------------
\* ReferenceRedactor._calculate_final_coordinates
\* the value of self.final_pymupdf_coords afterwards
\* ------------------------------------------------------------------------
\* lines 53-56: the tuples appended for one page's merged boxes
CoordsOfMerged(page_num, merged) ==
    [i \in 1..Len(merged) |->
        [page |-> page_num, x0 |-> merged[i].x, y0 |-> merged[i].y,
         x1 |-> merged[i].x + merged[i].w, y1 |-> merged[i].y + merged[i].h]]

\* lines 51-52
MergedOfPage(boxes, page_dim) ==
    ClusterAndMergeBoxes(boxes, page_dim.width, page_dim.height).merged

CoordsOfPage(page_num, boxes_by_page, dims) ==
    CoordsOfMerged(page_num, MergedOfPage(boxes_by_page[page_num], PageDim(dims, page_num)))

\* lines 50-56: for page_num, boxes in sorted(boxes_by_page.items())
RECURSIVE CoordsOfPages(_, _, _)
CoordsOfPages(pages, boxes_by_page, dims) ==
    IF pages = {} THEN <<>>
    ELSE CoordsOfPage(MinOf(pages), boxes_by_page, dims)
         \o CoordsOfPages(pages \ {MinOf(pages)}, boxes_by_page, dims)

CoordsOfBoxes(boxes_by_page, markup) ==
    IF DOMAIN boxes_by_page = {} THEN <<>>
    ELSE CoordsOfPages(DOMAIN boxes_by_page, boxes_by_page, GetPageDimensions(markup))

CalculateFinalCoordinates(markup) ==
    CoordsOfBoxes(ExtractRawReferenceBoxes(markup), markup)

\* ------------------------------------------------------------------------
\* Job results: a returned (success, message) pair, or an exception that
\* leaves the job (kind = "raise").  n is the count a message carries.
\* ------------------------------------------------------------------------
Returned(ok, msg, n) == [kind |-> "return", ok |-> ok, msg |-> msg, n |-> n]

Raised(msg) == [kind |-> "raise", ok |-> FALSE, msg |-> msg, n |-> 0]

\* ------------------------------------------------------------------------
\* File contents
\* ------------------------------------------------------------------------
\* no file at the path, or nothing written to it
NoFile == [t |-> "none"]

\* a file emptied by open(path, 'wb') and never filled; also the content of
\* a file that is neither markup nor PDF
Truncated == [t |-> "truncated"]

\* the PDF saved by _draw_rects_and_save: the source with the fills drawn
Redacted(src, drawn) == [t |-> "redacted", src |-> src, drawn |-> drawn]

\* fitz.open succeeds on a real PDF: a valid source, or a PDF saved earlier
IsOpenablePdf(content) ==
    \/ content.t = "pdf" /\ content.valid
    \/ content.t = "redacted"

\* len(doc)
RECURSIVE PageCount(_)
PageCount(content) ==
    IF content.t = "redacted" THEN PageCount(content.src) ELSE content.pages

\* ------------------------------------------------------------------------
\* ReferenceRedactor._draw_rects_and_save
\* [res, out]: the result and the content written to output_pdf_path
\* (NoFile: nothing written).  io is what the file system does to the save.
\* Document.__getitem__ accepts -len(doc) <= i < len(doc) and raises
\* IndexError below that.
\* ------------------------------------------------------------------------
PageIndexInBounds(page_index, npages) == page_index < npages

Padded(c) ==
    [page |-> c.page, x0 |-> c.x0 - DELETION_PADDING, y0 |-> c.y0 - DELETION_PADDING,
     x1 |-> c.x1 + DELETION_PADDING, y1 |-> c.y1 + DELETION_PADDING]

DrawRectsAndSave(src, coords, io) ==
    IF ~IsOpenablePdf(src)
    THEN [res |-> Returned(FALSE, "An error occurred during PDF processing", 0),
          out |-> NoFile]
    ELSE LET inb == SelectSeq(coords, LAMBDA c : PageIndexInBounds(c.page - 1, PageCount(src)))
         IN  IF \E i \in 1..Len(inb) : inb[i].page - 1 < 0 - PageCount(src)
             THEN [res |-> Returned(FALSE, "An error occurred during PDF processing", 0),
                   out |-> NoFile]
             ELSE IF io = "ok"
             THEN [res |-> Returned(TRUE, "Success (n area(s) covered).", Len(coords)),
                   out |-> Redacted(src, [i \in 1..Len(inb) |-> Padded(inb[i])])]
             ELSE [res |-> Returned(FALSE, "An error occurred during PDF processing", 0),
                   out |-> NoFile]

\* ------------------------------------------------------------------------
\* ReferenceRedactor.process
\* [res, coords, out]: the result, self.final_pymupdf_coords and the content
\* written to output_pdf_path.  src is NoFile when pdf_path does not exist.
\* ------------------------------------------------------------------------
\* shutil.copy is not inside any try: its failure leaves process()
CopyResult(io) ==
    IF io = "ok" THEN Returned(TRUE, "No references found; original file copied.", 0)
    ELSE Raised("OSError")

\* a copy that reports success and writes nothing
CopyOrDrawMut(coords, src, io) ==
    IF coords = <<>>
    THEN [res |-> CopyResult(io), coords |-> coords, out |-> NoFile]
    ELSE [res |-> DrawRectsAndSave(src, coords, io).res, coords |-> coords,
          out |-> DrawRectsAndSave(src, coords, io).out]

WithCoords(r, coords) == [res |-> r.res, coords |-> coords, out |-> r.out]

\* lines 39-42, self.final_pymupdf_coords being coords
CopyOrDraw(coords, src, io) ==
    IF coords = <<>>
    THEN [res |-> CopyResult(io), coords |-> coords,
          out |-> IF io = "ok" THEN src ELSE NoFile]
    ELSE WithCoords(DrawRectsAndSave(src, coords, io), coords)

\* process() without its test of os.path.exists(self.pdf_path)
ProcessMut(markup, src, io) == CopyOrDraw(CalculateFinalCoordinates(markup), src, io)

Process(markup, src, io) ==
    IF src = NoFile
    THEN [res |-> Returned(FALSE, "Corresponding PDF not found", 0),
          coords |-> <<>>, out |-> NoFile]
    ELSE CopyOrDraw(CalculateFinalCoordinates(markup), src, io)


\* ------------------------------------------------------------------------
\* File names.  A name is a sequence of tokens, its text their concatenation:
\* "a", "b", "notes", "_cleaned" and the extensions below.  No token's text
\* is split or joined by the others, so two names are the same text exactly
\* when they are the same sequence.
\* ------------------------------------------------------------------------
Extensions == {".pdf", ".PDF", ".xml", ".XML"}

\* str.lower() on a token
Lower(tok) == IF tok = ".PDF" THEN ".pdf" ELSE IF tok = ".XML" THEN ".xml" ELSE tok

\* f.lower().endswith(ext)
LowerEndsWith(name, ext) == name # <<>> /\ Lower(Last(name)) = ext

\* os.path.splitext(name)[0]: the text before the last dot, the whole name
\* when its only dots lead it
SplitextRoot(name) ==
    LET dots == {i \in 1..Len(name) : name[i] \in Extensions}
    IN  IF dots = {} \/ MaxOf(dots) = 1 THEN name
        ELSE SubSeq(name, 1, MaxOf(dots) - 1)

\* str.replace('.pdf', '_cleaned.pdf'): every occurrence
RECURSIVE ReplacePdf(_)
ReplacePdf(name) ==
    IF name = <<>> THEN <<>>
    ELSE (IF name[1] = ".pdf" THEN <<"_cleaned", ".pdf">> ELSE <<name[1]>>)
         \o ReplacePdf(Tail(name))

\* os.path.join(dir, name)
Join(dir, name) == <<dir, name>>

\* _generate_xmls_concurrently: the two paths of the job of one source file
XmlFilenameOf(filename) == SplitextRoot(filename) \o <<".xml">>

\* _process_single_redaction: the three paths of the job of one markup file
PdfFilenameOf(xml_filename) == SplitextRoot(xml_filename) \o <<".pdf">>

OutputFilenameOf(xml_filename) == ReplacePdf(PdfFilenameOf(xml_filename))

\* ------------------------------------------------------------------------
\* The file system
\* ------------------------------------------------------------------------
Exists(files, path) == path \in DOMAIN files

ReadFile(files, path) == IF Exists(files, path) THEN files[path] ELSE NoFile

\* the file system after content was written to path (NoFile: no write)
WriteFile(files, path, content) ==
    IF content = NoFile THEN files
    ELSE [q \in DOMAIN files \cup {path} |-> IF q = path THEN content ELSE files[q]]

\* [f for f in os.listdir(dir) if f.lower().endswith(ext)]
ListDir(files, dir, ext) ==
    {q[2] : q \in {r \in DOMAIN files : r[1] = dir /\ LowerEndsWith(r[2], ext)}}

\* what ET.parse makes of a file: a truncated or foreign file does not parse
BrokenMarkup ==
    [t |-> "xml", wellformed |-> FALSE, back |-> <<>>, other |-> <<>>, surfaces |-> <<>>]

MarkupOf(content) == IF content.t = "xml" THEN content ELSE BrokenMarkup

\* ------------------------------------------------------------------------
\* BatchRedactionManager._get_raw_xml_from_grobid
\* [res, out] for one outcome of the job's I/O:
\*   ok200     the service answers 200 with o.body, which is written
\*   status    the service answers another status
\*   transport requests raises a RequestException
\*   writefail the markup file is opened for writing (and so emptied) and
\*             the write raises an OSError
\* ------------------------------------------------------------------------
ExtractionResultMut(o) ==
    IF o.kind = "ok200" THEN Returned(TRUE, "Success", 0)
    ELSE IF o.kind = "status" THEN Returned(FALSE, "GROBID returned status", 0)
    ELSE IF o.kind = "transport" THEN Raised("RequestException")
    ELSE Returned(FALSE, "An unexpected error occurred", 0)

ExtractionResult(o) ==
    IF o.kind = "ok200" THEN Returned(TRUE, "Success", 0)
    ELSE IF o.kind = "status" THEN Returned(FALSE, "GROBID returned status", 0)
    ELSE IF o.kind = "transport" THEN Returned(FALSE, "Request Error", 0)
    ELSE Returned(FALSE, "An unexpected error occurred", 0)

\* a job that opens the markup file for writing before it looks at the status
GetRawXmlFromGrobidMut(o) ==
    [res |-> ExtractionResult(o),
     out |-> IF o.kind = "ok200" THEN o.body
             ELSE IF o.kind \in {"writefail", "status"} THEN Truncated
             ELSE NoFile]

GetRawXmlFromGrobid(o) ==
    [res |-> ExtractionResult(o),
     out |-> IF o.kind = "ok200" THEN o.body
             ELSE IF o.kind = "writefail" THEN Truncated
             ELSE NoFile]

\* ------------------------------------------------------------------------
\* The inputs of the pipeline
\* ------------------------------------------------------------------------
Group(p, x, y, w, h) == <<Num(p), Num(x), Num(y), Num(w), Num(h)>>

\* three references on page 1 and one on page 2
MkRefs ==
    [t |-> "xml", wellformed |-> TRUE,
     back |-> << <<Group(1, 50, 200, 200, 10), Group(1, 50, 212, 190, 10)>>,
                 <<Group(1, 52, 224, 210, 10), Group(2, 50, 100, 100, 10)>> >>,
     other |-> <<>>,
     surfaces |-> << <<Num(1), Num(595), Num(842)>> >>]

\* no reference-bearing element
MkNoRefs ==
    [t |-> "xml", wellformed |-> TRUE, back |-> <<>>, other |-> <<>>, surfaces |-> <<>>]

\* one pair of boxes, both in the header zone: every cluster is cleaned away
MkHeader ==
    [t |-> "xml", wellformed |-> TRUE, back |-> <<>>,
     other |-> << <<Group(1, 50, 30, 200, 10), Group(1, 50, 42, 200, 10)>> >>,
     surfaces |-> <<>>]

ServiceBodies == {MkRefs, MkNoRefs}

ServiceOutcomes ==
    [kind : {"ok200"}, body : ServiceBodies]
        \cup [kind : {"status", "transport", "writefail"}, body : {NoFile}]

\* what the file system does to the write of a redaction job (shutil.copy or
\* doc.save): it is done, or it raises an OSError and nothing is written
IoOutcomes == {"ok", "fail"}

Pdf(id, pages, valid) == [t |-> "pdf", id |-> id, pages |-> pages, valid |-> valid]

\* the source documents there may be, each with its content; the last is a
\* placeholder that is not a real PDF
SourceDocs ==
    { [name |-> <<"a", ".pdf">>, content |-> Pdf("A", 1, TRUE)],
      [name |-> <<"a", ".PDF">>, content |-> Pdf("A2", 2, TRUE)],
      [name |-> <<"a", "_cleaned", ".pdf">>, content |-> Pdf("AC", 0, FALSE)] }

\* markup files left in the markup directory by an earlier run
StaleMarkups ==
    { [name |-> <<"c", ".xml">>, content |-> MkRefs],
      [name |-> <<"a", ".xml">>, content |-> MkHeader],
      [name |-> <<"a", ".XML">>, content |-> BrokenMarkup] }

DirLayouts ==
    { [pdf_dir |-> "pdf_source", xml_dir |-> "grobid_raw_xml_output",
       redacted_dir |-> "redacted_pdf_output"],
      [pdf_dir |-> "pdf_source", xml_dir |-> "grobid_raw_xml_output",
       redacted_dir |-> "pdf_source"] }

\* the file system holding docs in dir
FilesIn(dir, docs) ==
    [q \in {Join(dir, d.name) : d \in docs} |->
        (CHOOSE d \in docs : Join(dir, d.name) = q).content]

NoResult == [kind |-> "pending", ok |-> FALSE, msg |-> "", n |-> 0]

RegionIdle ==
    /\ rgPc = "idle" /\ rgBoxes = <<>> /\ rgW = 0 /\ rgH = 0
    /\ rgCalls = <<>> /\ rgMerged = <<>>

DocIdle ==
    /\ dcPc = "idle" /\ dcMarkup = << >> /\ dcSrc = NoFile /\ dcIo = "ok"
    /\ dcBoxes = << >> /\ dcRun = << >>

\* BatchRedactionManager.__init__, and the directories as run() finds them
Init ==
    /\ pc = "Init"
    /\ \E d \in DirLayouts, n \in 1..MaxWorkers :
           cfg = [pdf_dir |-> d.pdf_dir, xml_dir |-> d.xml_dir,
                  redacted_dir |-> d.redacted_dir, workers |-> n]
    /\ \E docs \in SUBSET SourceDocs, stale \in SUBSET StaleMarkups :
           /\ Cardinality(docs) <= MaxDocs
           /\ Cardinality(stale) <= 1
           /\ fs = FilesIn(cfg.pdf_dir, docs \cup {[name |-> <<"notes">>, content |-> Truncated]})
                       @@ FilesIn(cfg.xml_dir, stale)
    /\ pdfFiles = {}
    /\ xmlFiles = {}
    /\ jobs1 = << >>
    /\ jobs2 = << >>
    /\ RegionIdle
    /\ DocIdle

\* ------------------------------------------------------------------------
\* BatchRedactionManager.run
\* ------------------------------------------------------------------------
Running(jobs) == {f \in DOMAIN jobs : jobs[f].st = "running"}

\* every submitted future has been yielded by as_completed and handled
AllCollectedMut(jobs, files) ==
    \E f \in files : f \in DOMAIN jobs /\ jobs[f].st = "collected"

\* a loop that waits for every job to have succeeded
AllSucceededMut(jobs, files) ==
    /\ DOMAIN jobs = files
    /\ \A f \in files : jobs[f].st = "collected" /\ jobs[f].res.kind = "return" /\ jobs[f].res.ok

AllCollected(jobs, files) ==
    /\ DOMAIN jobs = files
    /\ \A f \in files : jobs[f].st = "collected"

\* "if not pdf_files_to_process: ... return", and the same test on the markup
HaltsOnMut(files) == Cardinality(files) <= 1

HaltsOn(files) == files = {}

\* lines 192-197: list the source directory
ListSources ==
    /\ pc = "Init"
    /\ pdfFiles' = ListDir(fs, cfg.pdf_dir, ".pdf")
    /\ pc' = IF HaltsOn(pdfFiles') THEN "Halted" ELSE "Phase1Running"
    /\ UNCHANGED <<cfg, fs, xmlFiles, jobs1, jobs2>>
    /\ UNCHANGED rgVars
    /\ UNCHANGED dcVars

\* lines 221-226: executor.submit for one file of the listing
SubmitExtraction(f) ==
    /\ pc = "Phase1Running"
    /\ f \in pdfFiles \ DOMAIN jobs1
    /\ jobs1' = (f :> [st |-> "queued", res |-> NoResult]) @@ jobs1
    /\ UNCHANGED <<pc, cfg, fs, pdfFiles, xmlFiles, jobs2>>
    /\ UNCHANGED rgVars
    /\ UNCHANGED dcVars

\* a free worker thread of the pool takes a queued job
StartExtraction(f) ==
    /\ pc = "Phase1Running"
    /\ f \in DOMAIN jobs1 /\ jobs1[f].st = "queued"
    /\ Cardinality(Running(jobs1)) < cfg.workers
    /\ jobs1' = [jobs1 EXCEPT ![f].st = "running"]
    /\ UNCHANGED <<pc, cfg, fs, pdfFiles, xmlFiles, jobs2>>
    /\ UNCHANGED rgVars
    /\ UNCHANGED dcVars

\* _get_raw_xml_from_grobid(pdf_path, output_xml_path, grobid_url)
RunExtraction(f) ==
    /\ pc = "Phase1Running"
    /\ f \in DOMAIN jobs1 /\ jobs1[f].st = "running"
    /\ \E o \in ServiceOutcomes :
           \E r \in {GetRawXmlFromGrobid(o)} :
               /\ jobs1' = [jobs1 EXCEPT ![f] = [st |-> "done", res |-> r.res]]
               /\ fs' = WriteFile(fs, Join(cfg.xml_dir, XmlFilenameOf(f)), r.out)
    /\ UNCHANGED <<pc, cfg, pdfFiles, xmlFiles, jobs2>>
    /\ UNCHANGED rgVars
    /\ UNCHANGED dcVars

\* a retry policy: a future whose job failed or raised is queued again
HandleResultMut(job) ==
    IF job.res.kind = "return" /\ job.res.ok THEN [job EXCEPT !.st = "collected"]
    ELSE [job EXCEPT !.st = "queued", !.res = NoResult]

\* the body of the as_completed loop: future.result() is unpacked or its
\* exception caught, the outcome printed, and the future never touched again
HandleResult(job) == [job EXCEPT !.st = "collected"]

\* lines 227-236: as_completed yields a finished future and its outcome is
\* printed (the printed text is no state of the program)
CollectExtraction(f) ==
    /\ pc = "Phase1Running"
    /\ DOMAIN jobs1 = pdfFiles
    /\ f \in DOMAIN jobs1 /\ jobs1[f].st = "done"
    /\ jobs1' = [jobs1 EXCEPT ![f] = HandleResult(jobs1[f])]
    /\ UNCHANGED <<pc, cfg, fs, pdfFiles, xmlFiles, jobs2>>
    /\ UNCHANGED rgVars
    /\ UNCHANGED dcVars

\* lines 237-238: the loop and the with block end
EndPhase1 ==
    /\ pc = "Phase1Running"
    /\ AllCollected(jobs1, pdfFiles)
    /\ pc' = "Phase1Done"
    /\ UNCHANGED <<cfg, fs, pdfFiles, xmlFiles, jobs1, jobs2>>
    /\ UNCHANGED rgVars
    /\ UNCHANGED dcVars

\* lines 198-202: list the markup directory
ListMarkups ==
    /\ pc = "Phase1Done"
    /\ xmlFiles' = ListDir(fs, cfg.xml_dir, ".xml")
    /\ pc' = IF HaltsOn(xmlFiles') THEN "Halted" ELSE "Phase2Running"
    /\ UNCHANGED <<cfg, fs, pdfFiles, jobs1, jobs2>>
    /\ UNCHANGED rgVars
    /\ UNCHANGED dcVars

\* lines 262-265: executor.submit for one markup file
SubmitRedaction(f) ==
    /\ pc = "Phase2Running"
    /\ f \in xmlFiles \ DOMAIN jobs2
    /\ jobs2' = (f :> [st |-> "queued", res |-> NoResult, coords |-> <<>>]) @@ jobs2
    /\ UNCHANGED <<pc, cfg, fs, pdfFiles, xmlFiles, jobs1>>
    /\ UNCHANGED rgVars
    /\ UNCHANGED dcVars

StartRedaction(f) ==
    /\ pc = "Phase2Running"
    /\ f \in DOMAIN jobs2 /\ jobs2[f].st = "queued"
    /\ Cardinality(Running(jobs2)) < cfg.workers
    /\ jobs2' = [jobs2 EXCEPT ![f].st = "running"]
    /\ UNCHANGED <<pc, cfg, fs, pdfFiles, xmlFiles, jobs1>>
    /\ UNCHANGED rgVars
    /\ UNCHANGED dcVars

\* _process_single_redaction: the paths of the job, and process() on them
ProcessSingleRedaction(files, c, xml_filename, io) ==
    Process(MarkupOf(ReadFile(files, Join(c.xml_dir, xml_filename))),
            ReadFile(files, Join(c.pdf_dir, PdfFilenameOf(xml_filename))), io)

\* a worker runs _process_single_redaction(xml_filename)
RunRedaction(f) ==
    /\ pc = "Phase2Running"
    /\ f \in DOMAIN jobs2 /\ jobs2[f].st = "running"
    /\ \E io \in IoOutcomes :
           \E r \in {ProcessSingleRedaction(fs, cfg, f, io)} :
               /\ jobs2' = [jobs2 EXCEPT ![f] = [st |-> "done", res |-> r.res,
                                                 coords |-> r.coords]]
               /\ fs' = WriteFile(fs, Join(cfg.redacted_dir, OutputFilenameOf(f)), r.out)
    /\ UNCHANGED <<pc, cfg, pdfFiles, xmlFiles, jobs1>>
    /\ UNCHANGED rgVars
    /\ UNCHANGED dcVars

\* lines 266-276
CollectRedaction(f) ==
    /\ pc = "Phase2Running"
    /\ DOMAIN jobs2 = xmlFiles
    /\ f \in DOMAIN jobs2 /\ jobs2[f].st = "done"
    /\ jobs2' = [jobs2 EXCEPT ![f] = HandleResult(jobs2[f])]
    /\ UNCHANGED <<pc, cfg, fs, pdfFiles, xmlFiles, jobs1>>
    /\ UNCHANGED rgVars
    /\ UNCHANGED dcVars

\* lines 277-278 and 203-207
EndPhase2 ==
    /\ pc = "Phase2Running"
    /\ AllCollected(jobs2, xmlFiles)
    /\ pc' = "Phase2Done"
    /\ UNCHANGED <<cfg, fs, pdfFiles, xmlFiles, jobs1, jobs2>>
    /\ UNCHANGED rgVars
    /\ UNCHANGED dcVars

FileNames == {q[2] : q \in DOMAIN fs}

Next ==
    \/ ListSources
    \/ \E f \in FileNames : SubmitExtraction(f)
    \/ \E f \in FileNames : StartExtraction(f)
    \/ \E f \in FileNames : RunExtraction(f)
    \/ \E f \in FileNames : CollectExtraction(f)
    \/ EndPhase1
    \/ ListMarkups
    \/ \E f \in FileNames : SubmitRedaction(f)
    \/ \E f \in FileNames : StartRedaction(f)
    \/ \E f \in FileNames : RunRedaction(f)
    \/ \E f \in FileNames : CollectRedaction(f)
    \/ EndPhase2

Spec == Init /\ [][Next]_vars

\* the steps of the main thread and of the pools: everything but the body of
\* a job
Control ==
    \/ ListSources
    \/ EndPhase1
    \/ ListMarkups
    \/ EndPhase2
    \/ \E f \in FileNames :
           \/ SubmitExtraction(f) \/ StartExtraction(f) \/ CollectExtraction(f)
           \/ SubmitRedaction(f) \/ StartRedaction(f) \/ CollectRedaction(f)

\* every file name a job can have
JobNames ==
    {d.name : d \in SourceDocs} \cup {m.name : m \in StaleMarkups}
        \cup {XmlFilenameOf(d.name) : d \in SourceDocs}

IsRunning(f) ==
    \/ f \in DOMAIN jobs1 /\ jobs1[f].st = "running"
    \/ f \in DOMAIN jobs2 /\ jobs2[f].st = "running"

\* every job terminates: the request is bounded by timeout=180, and the rest
\* of a job is a bounded computation on one document
EveryJobTerminates == \A f \in JobNames : []<>(~IsRunning(f))

\* The run under its scheduling: the main thread keeps executing run(), each
\* pool keeps its worker threads taking queued jobs and as_completed yields
\* every finished future (a step of Control is taken whenever one stays
\* possible), and every job terminates.
SpecLive == Init /\ [][Next]_vars /\ WF_vars(Control) /\ EveryJobTerminates

\* ------------------------------------------------------------------------
\* Properties of the pipeline (checked under Spec)
\* ------------------------------------------------------------------------
Completed(job) == job.st \in {"done", "collected"} /\ job.res.kind # "pending"

Succeeded(job) == Completed(job) /\ job.res.kind = "return" /\ job.res.ok

Failed(job) == Completed(job) /\ ~(job.res.kind = "return" /\ job.res.ok)

\* the names in dir that end in one of exts
NamesEnding(dir, exts) ==
    {q[2] : q \in {r \in DOMAIN fs : r[1] = dir /\ r[2][Len(r[2])] \in exts}}

SourcesNow == NamesEnding(cfg.pdf_dir, {".pdf", ".PDF"})

MarkupsNow == NamesEnding(cfg.xml_dir, {".xml", ".XML"})

\* C1: no RedactionJob is submitted (let alone started) before every source
\* document of the listing has had its ExtractionJob submitted and completed,
\* successfully or not.
C1_PhaseBarrier ==
    (DOMAIN jobs2 # {}) =>
        /\ DOMAIN jobs1 = pdfFiles
        /\ \A g \in DOMAIN jobs1 : Completed(jobs1[g])

\* a RedactionJob is running after a phase 1 with two jobs, one of which failed
C1_Witness ==
    /\ \E f \in DOMAIN jobs2 : jobs2[f].st = "running"
    /\ \E g, h \in DOMAIN jobs1 : g # h /\ Failed(jobs1[g]) /\ Completed(jobs1[h])

\* C2: whichever ExtractionJobs fail, every ExtractionJob of the listing
\* completes with a returned (success, message) pair of its own; the run halts
\* after phase 1 only when the markup directory holds no markup file, and
\* otherwise phase 2 has the markup files of that directory as its jobs, one
\* RedactionJob each.
C2_FailureIsolation ==
    /\ (pc \in {"Phase1Done", "Phase2Running", "Phase2Done"}
            \/ (pc = "Halted" /\ pdfFiles # {})) =>
           /\ DOMAIN jobs1 = pdfFiles
           /\ \A f \in pdfFiles : Completed(jobs1[f]) /\ jobs1[f].res.kind = "return"
    /\ (pc = "Halted" /\ pdfFiles # {}) => MarkupsNow = {}
    /\ pc \in {"Phase2Running", "Phase2Done"} =>
           /\ MarkupsNow # {}
           /\ xmlFiles = MarkupsNow
           /\ DOMAIN jobs2 \subseteq xmlFiles
    /\ pc = "Phase2Done" =>
           /\ DOMAIN jobs2 = xmlFiles
           /\ \A f \in xmlFiles : Completed(jobs2[f])

\* phase 2 has all its jobs submitted after a phase 1 in which one job failed
\* and another succeeded
C2_Witness ==
    /\ pc = "Phase2Running"
    /\ DOMAIN jobs2 = xmlFiles
    /\ \E g, h \in DOMAIN jobs1 : Failed(jobs1[g]) /\ Succeeded(jobs1[h])

\* C3, as stated: every job of either kind ends by returning a
\* (success, message) pair; no exception leaves a job.
C3_NoExceptionEscapes ==
    /\ \A f \in DOMAIN jobs1 : Completed(jobs1[f]) => jobs1[f].res.kind = "return"
    /\ \A f \in DOMAIN jobs2 : Completed(jobs2[f]) => jobs2[f].res.kind = "return"

\* the step in which the RedactionJob of f ends with an empty FinalRect list,
\* its source PDF existing
EndsWithNoRects(f) ==
    /\ f \in DOMAIN jobs2 /\ jobs2[f].st = "running"
    /\ f \in DOMAIN jobs2' /\ jobs2'[f].st = "done"
    /\ jobs2'[f].coords = <<>>
    /\ Exists(fs, Join(cfg.pdf_dir, PdfFilenameOf(f)))

SourceOf(files, f) == ReadFile(files, Join(cfg.pdf_dir, PdfFilenameOf(f)))

OutputOf(files, f) == ReadFile(files, Join(cfg.redacted_dir, OutputFilenameOf(f)))

NoReferencesCopied == Returned(TRUE, "No references found; original file copied.", 0)

\* C8, as stated: a RedactionJob whose source exists and whose FinalRect list
\* is empty leaves a byte-identical copy of the source at the output path,
\* leaves the source unchanged and returns success, "no references found".
C8_EmptyRectsAlwaysCopied ==
    [][\A f \in xmlFiles :
           EndsWithNoRects(f) =>
               /\ OutputOf(fs', f) = SourceOf(fs, f)
               /\ SourceOf(fs', f) = SourceOf(fs, f)
               /\ jobs2'[f].res = NoReferencesCopied]_vars

\* C8, amended: such a job leaves the source unchanged, and either the copy
\* is done, the output path then holding a byte-identical copy of the source
\* and the job returning success, "no references found", or the copy itself
\* fails, and the job does not report success.
C8_EmptyRectsCopiedUnlessCopyFails ==
    [][\A f \in xmlFiles :
           EndsWithNoRects(f) =>
               /\ SourceOf(fs', f) = SourceOf(fs, f)
               /\ \/ /\ jobs2'[f].res = NoReferencesCopied
                     /\ OutputOf(fs', f) = SourceOf(fs, f)
                  \/ ~(jobs2'[f].res.kind = "return" /\ jobs2'[f].res.ok)]_vars

\* a job whose markup had every cluster cleaned away, done, with the copy of
\* its source at the output path
C8_Witness ==
    \E f \in DOMAIN jobs2 :
        /\ jobs2[f].st = "done"
        /\ jobs2[f].coords = <<>>
        /\ jobs2[f].res = NoReferencesCopied
        /\ ReadFile(fs, Join(cfg.xml_dir, f)) = MkHeader
        /\ SourceOf(fs, f) # NoFile
        /\ OutputOf(fs, f) = SourceOf(fs, f)

\* C9, as stated: within a phase no two jobs have the same output path.
C9_DistinctOutputPaths ==
    /\ \A f, g \in DOMAIN jobs1 :
           f # g => Join(cfg.xml_dir, XmlFilenameOf(f)) # Join(cfg.xml_dir, XmlFilenameOf(g))
    /\ \A f, g \in DOMAIN jobs2 :
           f # g => Join(cfg.redacted_dir, OutputFilenameOf(f))
                        # Join(cfg.redacted_dir, OutputFilenameOf(g))

PipelineEdges ==
    { <<"Init", "Phase1Running">>, <<"Init", "Halted">>,
      <<"Phase1Running", "Phase1Done">>,
      <<"Phase1Done", "Phase2Running">>, <<"Phase1Done", "Halted">>,
      <<"Phase2Running", "Phase2Done">> }

\* C10: run() only moves forward along Init, Phase1Running, Phase1Done,
\* Phase2Running, Phase2Done; it leaves Init for Halted exactly when the
\* source directory holds no source document, and Phase1Done for Halted
\* exactly when the markup directory holds no markup file; nothing happens
\* after Halted or Phase2Done, and a halted run has no RedactionJob, and no
\* ExtractionJob either when it halted for want of a source document.
C10_ForwardOnly ==
    [][/\ pc \notin {"Halted", "Phase2Done"}
       /\ pc' # pc => <<pc, pc'>> \in PipelineEdges
       /\ (pc = "Init" /\ pc' # pc) => (pc' = "Halted" <=> SourcesNow = {})
       /\ (pc = "Phase1Done" /\ pc' # pc) => (pc' = "Halted" <=> MarkupsNow = {})
       /\ pc' = "Halted" =>
              /\ jobs2' = << >>
              /\ pc = "Init" => jobs1' = << >>]_vars

\* a run halted after a phase 1 that produced no markup
C10_Witness ==
    /\ pc = "Halted"
    /\ pdfFiles # {}
    /\ \A f \in pdfFiles : f \in DOMAIN jobs1 /\ Failed(jobs1[f])

\* the position of a future in its life: queued, running, done, collected
Rank(st) == IF st = "queued" THEN 1 ELSE IF st = "running" THEN 2
            ELSE IF st = "done" THEN 3 ELSE 4

\* a job of jobs that is kept in jobs2, never moved back and never given a
\* second result
NeverAgain(jobs, jobs2nd) ==
    \A f \in DOMAIN jobs :
        /\ f \in DOMAIN jobs2nd
        /\ Rank(jobs2nd[f].st) >= Rank(jobs[f].st)
        /\ jobs[f].res # NoResult => jobs2nd[f].res = jobs[f].res

\* C11: each discovered source document gets exactly one ExtractionJob and
\* each discovered markup file exactly one RedactionJob: a phase ends with
\* one future per listed file, and no future, failed or not, is ever queued,
\* started or run a second time.
C11_OneAttemptPerFile ==
    [][/\ NeverAgain(jobs1, jobs1')
       /\ NeverAgain(jobs2, jobs2')
       /\ DOMAIN jobs1' \subseteq pdfFiles'
       /\ DOMAIN jobs2' \subseteq xmlFiles'
       /\ pc' = "Phase1Done" => DOMAIN jobs1' = pdfFiles'
       /\ pc' = "Phase2Done" => DOMAIN jobs2' = xmlFiles']_vars

\* a run that is complete, with a failed job in each phase
C11_Witness ==
    /\ pc = "Phase2Done"
    /\ \E f \in DOMAIN jobs1 : Failed(jobs1[f])
    /\ \E g \in DOMAIN jobs2 : Failed(jobs2[g])

\* the step in which the RedactionJob of f ends, its source PDF missing
EndsWithoutSource(f) ==
    /\ f \in DOMAIN jobs2 /\ jobs2[f].st = "running"
    /\ f \in DOMAIN jobs2' /\ jobs2'[f].st = "done"
    /\ ~Exists(fs, Join(cfg.pdf_dir, PdfFilenameOf(f)))

SourceNotFoundResult == Returned(FALSE, "Corresponding PDF not found", 0)

\* C13: a RedactionJob whose source PDF does not exist returns failure,
\* "source not found"; no FinalRect is computed from its markup, no file is
\* created or changed, and the other RedactionJobs are left as they were.
C13_MissingSourceFailsCleanly ==
    [][\A f \in xmlFiles :
           EndsWithoutSource(f) =>
               /\ jobs2'[f].res = SourceNotFoundResult
               /\ jobs2'[f].coords = <<>>
               /\ fs' = fs
               /\ \A g \in DOMAIN jobs2 \ {f} : jobs2'[g] = jobs2[g]]_vars

\* a complete run in which the job of a markup with references and no source
\* failed, nothing is at its output path, and another job succeeded
C13_Witness ==
    /\ pc = "Phase2Done"
    /\ \E f \in DOMAIN jobs2 :
           /\ jobs2[f].res = SourceNotFoundResult
           /\ CalculateFinalCoordinates(MarkupOf(ReadFile(fs, Join(cfg.xml_dir, f)))) # <<>>
           /\ ~Exists(fs, Join(cfg.redacted_dir, OutputFilenameOf(f)))
           /\ \E g \in DOMAIN jobs2 : g # f /\ Succeeded(jobs2[g])

\* what a successful RedactionJob with FinalRects coords saves from src
SavedFrom(src, coords) ==
    LET inb == SelectSeq(coords, LAMBDA c : c.page - 1 < PageCount(src))
    IN  Redacted(src, [i \in 1..Len(inb) |-> Padded(inb[i])])

\* C14, as stated: the final content of the markup directory and of the
\* output directory does not depend on the order in which the jobs of a
\* phase run.  Were it so, every successful job would find at its output
\* path, once its phase is over, what it wrote there from its own input (a
\* body of the service; the copy or the covered copy of its source): a path
\* that holds something else was written by another job afterwards, and holds
\* the first job's content when the two run in the other order.
C14_ContentIndependentOfOrder ==
    /\ pc \in {"Phase1Done", "Phase2Running", "Phase2Done", "Halted"} =>
           \A f \in DOMAIN jobs1 :
               Succeeded(jobs1[f]) =>
                   ReadFile(fs, Join(cfg.xml_dir, XmlFilenameOf(f))) \in ServiceBodies
    /\ pc = "Phase2Done" =>
           \A f \in DOMAIN jobs2 :
               Succeeded(jobs2[f]) =>
                   OutputOf(fs, f) = IF jobs2[f].coords = <<>> THEN SourceOf(fs, f)
                                     ELSE SavedFrom(SourceOf(fs, f), jobs2[f].coords)

\* C18: every job terminating, every run ends in Halted or in Phase2Done,
\* whichever jobs fail or raise.
C18_RunEnds == <>(pc \in {"Halted", "Phase2Done"})

\* a run that reached the end of phase 2 although every ExtractionJob failed
\* and a RedactionJob raised
C18_Witness ==
    /\ pc = "Phase2Done"
    /\ \A f \in DOMAIN jobs1 : Failed(jobs1[f])
    /\ \E g \in DOMAIN jobs2 : jobs2[g].res.kind = "raise"

\* the step in which the ExtractionJob of f ends
EndsExtraction(f) ==
    /\ f \in DOMAIN jobs1 /\ jobs1[f].st = "running"
    /\ f \in DOMAIN jobs1' /\ jobs1'[f].st = "done"

\* the job failed because the service answered another status than 200, or
\* because the request raised
FailedWithout200(job) ==
    /\ Failed(job)
    /\ job.res.msg \in {"GROBID returned status", "Request Error"}

\* C19: an ExtractionJob changes no file but the one at its output path, and
\* that one only when the service answered 200; a job that fails on another
\* status or on a transport error leaves the file system as it was, and a
\* markup file that is at its output path is listed for phase 2.
C19_MarkupWrittenOnlyOn200 ==
    [][/\ \A f \in pdfFiles :
              EndsExtraction(f) =>
                  /\ \A q \in DOMAIN fs' :
                         q # Join(cfg.xml_dir, XmlFilenameOf(f)) =>
                             q \in DOMAIN fs /\ fs'[q] = fs[q]
                  /\ DOMAIN fs \subseteq DOMAIN fs'
                  /\ FailedWithout200(jobs1'[f]) => fs' = fs
       /\ pc' = "Phase2Running" =>
              \A f \in DOMAIN jobs1 :
                  (/\ FailedWithout200(jobs1[f])
                   /\ Exists(fs, Join(cfg.xml_dir, XmlFilenameOf(f))))
                      => XmlFilenameOf(f) \in xmlFiles']_vars

\* the only ExtractionJob failed on the status or the transport, and the
\* markup file left earlier at its output path is a job of phase 2, unchanged
C19_Witness ==
    /\ pc = "Phase2Running"
    /\ \E f \in DOMAIN jobs1 :
           /\ DOMAIN jobs1 = {f}
           /\ FailedWithout200(jobs1[f])
           /\ XmlFilenameOf(f) \in xmlFiles
           /\ ReadFile(fs, Join(cfg.xml_dir, XmlFilenameOf(f))) = MkHeader

\* C20, as stated: the output path of a RedactionJob is never the path of
\* its companion source PDF, and every source PDF of the listing holds, at
\* every moment of the run, the content it had at the start.
C20_SourcesNeverWritten ==
    /\ \A f \in xmlFiles :
           Join(cfg.redacted_dir, OutputFilenameOf(f)) # Join(cfg.pdf_dir, PdfFilenameOf(f))
    /\ \A d \in SourceDocs :
           d.name \in pdfFiles => ReadFile(fs, Join(cfg.pdf_dir, d.name)) = d.content

\* ========================================================================
\* Region consolidation of one page, as a specification of its own:
\* _cluster_and_merge_boxes applied to every box list of the bounded input set
\* ========================================================================
Box(x, y, w, h) == [x |-> x, y |-> y, w |-> w, h |-> h]

\* Boxes on both sides of each threshold of a 595 x 842 page: left edges 95
\* and 96 apart (0.16 x 595 = 95.2), tops at 119 / 120 (header) and at
\* 762 / 763 (footer, 842 - 80), two equal tops, a line spacing of 12 and a
\* stray box far below the rest.
BoxPool ==
    { Box(50, 100, 200, 10), Box(50, 119, 180, 10), Box(50, 120, 150, 12),
      Box(145, 120, 100, 30), Box(146, 132, 120, 10), Box(300, 762, 150, 10),
      Box(300, 763, 90, 20), Box(60, 644, 10, 10) }

\* 5 boxes at 12-unit spacing and one stray box 500 units below the last,
\* the stray one first in document order
ExampleCluster ==
    << Box(50, 748, 40, 10), Box(50, 200, 200, 10), Box(52, 212, 190, 10),
       Box(50, 224, 210, 10), Box(51, 236, 180, 10), Box(50, 248, 100, 10) >>

PageSizes == { [width |-> 595, height |-> 842], [width |-> 600, height |-> 800] }

BoxLists == SeqsUpTo(BoxPool, MaxBoxes) \cup {ExampleCluster}

PipelineIdle ==
    /\ pc = "Off" /\ cfg = << >> /\ fs = << >> /\ pdfFiles = {} /\ xmlFiles = {}
    /\ jobs1 = << >> /\ jobs2 = << >>

InitRegion ==
    /\ rgPc = "input"
    /\ rgBoxes \in BoxLists
    /\ \E d \in PageSizes : rgW = d.width /\ rgH = d.height
    /\ rgCalls = <<>>
    /\ rgMerged = <<>>
    /\ PipelineIdle
    /\ DocIdle

Consolidate ==
    /\ rgPc = "input"
    /\ LET r == ClusterAndMergeBoxes(rgBoxes, rgW, rgH)
       IN  /\ rgCalls' = r.calls
           /\ rgMerged' = r.merged
    /\ rgPc' = "done"
    /\ UNCHANGED <<rgBoxes, rgW, rgH>>
    /\ UNCHANGED plVars
    /\ UNCHANGED dcVars

NextRegion == Consolidate

SpecRegion == InitRegion /\ [][NextRegion]_vars


\* ------------------------------------------------------------------------
\* Properties of the region consolidation (checked under SpecRegion)
\* ------------------------------------------------------------------------
RECURSIVE LenSum(_, _)
LenSum(calls, k) == IF k = 0 THEN 0 ELSE LenSum(calls, k - 1) + Len(calls[k].in)

\* the raw clusters are the inputs of the _clean_cluster calls; the raw
\* cluster of the i-th box of the page
RawIndexOf(i) ==
    CHOOSE k \in 1..Len(rgCalls) : LenSum(rgCalls, k - 1) < i /\ i <= LenSum(rgCalls, k)

RawClustersPartitionInput ==
    Flatten([k \in 1..Len(rgCalls) |-> rgCalls[k].in]) = rgBoxes

AbsDiff(a, b) == IF a >= b THEN a - b ELSE b - a

\* C4, as stated: any two boxes of a page whose left edges differ by more
\* than 0.16 x page_width are in different raw clusters, and any two whose
\* left edges differ by at most that are in the same raw cluster.
C4_AnyTwoBoxesByThreshold ==
    rgPc = "done" =>
        \A i, j \in 1..Len(rgBoxes) :
            i < j =>
                LET far == AbsDiff(rgBoxes[i].x, rgBoxes[j].x) * 100 > 16 * rgW
                IN  far <=> RawIndexOf(i) # RawIndexOf(j)

\* What line 154 does instead (C4, C17): the raw clusters cut the page's list
\* into consecutive runs, and two CONSECUTIVE boxes are in different raw
\* clusters exactly when the later left edge minus the earlier one (signed)
\* exceeds 0.16 x page_width; a leftward jump of any size stays in the
\* running cluster.
C4_ConsecutiveSignedThreshold ==
    rgPc = "done" =>
        /\ RawClustersPartitionInput
        /\ \A i \in 2..Len(rgBoxes) :
               (RawIndexOf(i) # RawIndexOf(i - 1))
                   <=> ((rgBoxes[i].x - rgBoxes[i - 1].x) * 100 > 16 * rgW)
        /\ \A i \in 2..Len(rgBoxes) : RawIndexOf(i) \in {RawIndexOf(i - 1), RawIndexOf(i - 1) + 1}

\* a rightward jump over the threshold that split, a leftward one that did not
C4_Witness ==
    /\ rgPc = "done"
    /\ \E i \in 2..Len(rgBoxes) :
           /\ (rgBoxes[i].x - rgBoxes[i - 1].x) * 100 > 16 * rgW
           /\ RawIndexOf(i) # RawIndexOf(i - 1)
    /\ \E i \in 2..Len(rgBoxes) :
           /\ (rgBoxes[i - 1].x - rgBoxes[i].x) * 100 > 16 * rgW
           /\ RawIndexOf(i) = RawIndexOf(i - 1)

\* S is s sorted by y, the boxes of equal y in the order they have in s
IsStableSortOf(S, s) ==
    /\ Len(S) = Len(s)
    /\ \A i \in 2..Len(S) : S[i - 1].y <= S[i].y
    /\ \A c \in {s[i].y : i \in 1..Len(s)} \cup {S[i].y : i \in 1..Len(S)} :
           SelectSeq(S, LAMBDA b : b.y = c) = SelectSeq(s, LAMBDA b : b.y = c)

\* the k-th smallest of a non-empty sequence of numbers
KthSmallest(g, k) ==
    CHOOSE v \in Range(g) :
        /\ Cardinality({i \in 1..Len(g) : g[i] < v}) < k
        /\ k <= Cardinality({i \in 1..Len(g) : g[i] <= v})

\* whether the sorted list S is split before its i-th box: the gap to the
\* previous box exceeds 4.0 x the median of the strictly positive gaps
\* (twice the median is the sum of the two middle gaps)
SplitBefore(S, i) ==
    LET pos == SelectSeq([m \in 1..(Len(S) - 1) |-> S[m + 1].y - S[m].y],
                         LAMBDA g : g > 0)
        n == Len(pos)
        twiceMedian == KthSmallest(pos, (n + 1) \div 2) + KthSmallest(pos, (n + 2) \div 2)
    IN  2 * (S[i].y - S[i - 1].y) > 4 * twiceMedian

\* S[a..b] is one of the groups the splits cut S into
IsGroup(S, a, b) ==
    /\ 1 <= a /\ a <= b /\ b <= Len(S)
    /\ a = 1 \/ SplitBefore(S, a)
    /\ b = Len(S) \/ SplitBefore(S, b + 1)
    /\ \A i \in (a + 1)..b : ~SplitBefore(S, i)

HasPositiveGap(s) == \E i, j \in 1..Len(s) : s[i].y # s[j].y

\* C5: from a raw cluster of 3 or more boxes with a strictly positive gap,
\* _clean_cluster returns the largest group, the first found on ties, that
\* splitting the y-sorted boxes at every gap over 4.0 x the median positive
\* gap leaves; 5 boxes at 12-unit spacing with a stray box 500 units below
\* give one region, the bounding box of the 5.
C5_LargestVerticalGroup ==
    rgPc = "done" =>
        /\ \A k \in 1..Len(rgCalls) :
               LET in == rgCalls[k].in
                   out == rgCalls[k].out
                   S == SortByY(in)
               IN  (Len(in) >= 3 /\ HasPositiveGap(in)) =>
                       /\ IsStableSortOf(S, in)
                       /\ \E a \in 1..Len(S) : \E b \in a..Len(S) :
                              /\ IsGroup(S, a, b)
                              /\ out = SubSeq(S, a, b)
                              /\ \A c \in 1..Len(S) : \A d \in c..Len(S) :
                                     IsGroup(S, c, d) =>
                                         /\ d - c <= b - a
                                         /\ (d - c = b - a) => a <= c
        /\ rgBoxes = ExampleCluster =>
               /\ Len(rgCalls) = 1
               /\ rgCalls[1].out = SubSeq(ExampleCluster, 2, 6)
               /\ rgMerged = << [cluster_id |-> 1, x |-> 50, y |-> 200,
                                 w |-> 210, h |-> 58] >>

\* a raw cluster cut into two groups of the same size, the first of which
\* (in y order) was returned
C5_Witness ==
    /\ rgPc = "done"
    /\ \E k \in 1..Len(rgCalls) :
           LET S == SortByY(rgCalls[k].in)
           IN  /\ Len(S) = 4
               /\ HasPositiveGap(S)
               /\ SplitBefore(S, 3) /\ ~SplitBefore(S, 2) /\ ~SplitBefore(S, 4)
               /\ rgCalls[k].out = SubSeq(S, 1, 2)

\* C17, as stated: for every pair of consecutive boxes of the page, the later
\* box starts a new cluster exactly when the distance between the two left
\* edges, leftward or rightward, exceeds 0.16 x page_width.
C17_SplitsEitherDirection ==
    rgPc = "done" =>
        \A i \in 2..Len(rgBoxes) :
            (RawIndexOf(i) # RawIndexOf(i - 1))
                <=> (AbsDiff(rgBoxes[i].x, rgBoxes[i - 1].x) * 100 > 16 * rgW)

\* the calls of _clean_cluster that returned a non-empty cluster
KeptCalls == SelectSeq(rgCalls, LAMBDA c : c.out # <<>>)

\* C6: from a raw cluster of exactly 2 boxes, cleaning removes exactly the
\* boxes with y < 120 or y > page_height - 80; a cluster that loses both
\* boxes gives no region (there is one region per non-empty cleaned cluster).
C6_PairHeaderFooterFilter ==
    rgPc = "done" =>
        /\ \A k \in 1..Len(rgCalls) :
               Len(rgCalls[k].in) = 2 =>
                   rgCalls[k].out =
                       SelectSeq(rgCalls[k].in,
                                 LAMBDA b : ~(b.y < 120 \/ b.y > rgH - 80))
        /\ Len(rgMerged) = Len(KeptCalls)

\* a pair with both boxes in the header zone, and no region for the page
C6_Witness ==
    /\ rgPc = "done"
    /\ Len(rgCalls) = 1
    /\ Len(rgCalls[1].in) = 2
    /\ \A i \in 1..2 : rgCalls[1].in[i].y < 120
    /\ rgCalls[1].out = <<>>
    /\ rgMerged = <<>>

\* C7: every returned region bounds every box of the cleaned cluster it was
\* built from, and each of its edges is the least left or top edge, or the
\* greatest right or bottom edge, of those boxes.
C7_RegionBoundsCluster ==
    rgPc = "done" =>
        /\ Len(rgMerged) = Len(KeptCalls)
        /\ \A i \in 1..Len(rgMerged) :
               LET r == rgMerged[i]
                   bs == Range(KeptCalls[i].out)
               IN  /\ r.cluster_id = i
                   /\ \A b \in bs : /\ r.x <= b.x
                                    /\ r.y <= b.y
                                    /\ r.x + r.w >= b.x + b.w
                                    /\ r.y + r.h >= b.y + b.h
                   /\ \E b \in bs : r.x = b.x
                   /\ \E b \in bs : r.y = b.y
                   /\ \E b \in bs : r.x + r.w = b.x + b.w
                   /\ \E b \in bs : r.y + r.h = b.y + b.h

\* a region of several boxes, wider and taller than each of them
C7_Witness ==
    /\ rgPc = "done"
    /\ \E i \in 1..Len(rgMerged) :
           /\ i <= Len(KeptCalls)
           /\ Len(KeptCalls[i].out) >= 2
           /\ \A b \in Range(KeptCalls[i].out) :
                  rgMerged[i].w > b.w /\ rgMerged[i].h > b.h

\* ========================================================================
\* The redaction of one document, as a specification of its own:
\* ReferenceRedactor.process applied to every markup of the bounded input set
\* ========================================================================

\* coordinate groups: two boxes of page 1, one of page 2, one whose page
\* field is 0, one of 4 fields and one with a field that is no number
GroupPool ==
    { Group(1, 50, 200, 200, 10), Group(1, 52, 212, 190, 10),
      Group(2, 50, 300, 100, 10), Group(0, 50, 400, 100, 10),
      <<Num(1), Num(50), Num(224), Num(210)>>,
      <<Num(1), NonNumeric, Num(236), Num(180), Num(10)>> }

\* two biblStruct elements under tei:back, the first with the first group,
\* the second with the others (one element without coords when there is no
\* group); and a file that does not parse
DocMarkups ==
    { [t |-> "xml", wellformed |-> TRUE,
       back |-> IF gs = <<>> THEN << <<>> >> ELSE << <<Head(gs)>>, Tail(gs) >>,
       other |-> <<>>, surfaces |-> <<>>] : gs \in SeqsUpTo(GroupPool, MaxGroups) }
        \cup {BrokenMarkup}

DocSources == { Pdf("A", 1, TRUE), Pdf("A2", 2, TRUE), NoFile }

InitDoc ==
    /\ dcPc = "input"
    /\ dcMarkup \in DocMarkups
    /\ dcSrc \in DocSources
    /\ dcIo \in IoOutcomes
    /\ dcBoxes = << >>
    /\ dcRun = << >>
    /\ RegionIdle
    /\ PipelineIdle

\* lines 36-37: pdf_path does not exist
SourceNotFound ==
    /\ dcPc = "input"
    /\ dcSrc = NoFile
    /\ dcRun' = Process(dcMarkup, dcSrc, dcIo)
    /\ dcPc' = "done"
    /\ UNCHANGED <<dcMarkup, dcSrc, dcIo, dcBoxes>>
    /\ UNCHANGED rgVars
    /\ UNCHANGED plVars

\* line 45: boxes_by_page = self._extract_raw_reference_boxes()
ExtractBoxes ==
    /\ dcPc = "input"
    /\ dcSrc # NoFile
    /\ dcBoxes' = ExtractRawReferenceBoxes(dcMarkup)
    /\ dcPc' = "parsed"
    /\ UNCHANGED <<dcMarkup, dcSrc, dcIo, dcRun>>
    /\ UNCHANGED rgVars
    /\ UNCHANGED plVars

\* lines 46-57 and 39-42: the rest of process()
CoverOrCopy ==
    /\ dcPc = "parsed"
    /\ dcRun' = CopyOrDraw(CoordsOfBoxes(dcBoxes, dcMarkup), dcSrc, dcIo)
    /\ dcPc' = "done"
    /\ UNCHANGED <<dcMarkup, dcSrc, dcIo, dcBoxes>>
    /\ UNCHANGED rgVars
    /\ UNCHANGED plVars

NextDoc == SourceNotFound \/ ExtractBoxes \/ CoverOrCopy

SpecDoc == InitDoc /\ [][NextDoc]_vars

\* ------------------------------------------------------------------------
\* Properties of the redaction of one document (checked under SpecDoc)
\* ------------------------------------------------------------------------

\* the three steps together are process()
StepsAreProcess == dcPc = "done" => dcRun = Process(dcMarkup, dcSrc, dcIo)

\* a group of exactly 5 fields, each of them numeric
IsConforming(g) == Len(g) = 5 /\ \A k \in 1..5 : IsNumeric(g[k])

\* the RawBoxes of the conforming groups alone, per page, in document order
ConformingBoxes(markup) ==
    LET good == SelectSeq(Flatten(RefItems(markup)), LAMBDA g : IsConforming(g))
    IN  [p \in {good[i][1].v : i \in 1..Len(good)} |->
            LET mine == SelectSeq(good, LAMBDA g : g[1].v = p)
            IN  [i \in 1..Len(mine) |->
                    [x |-> mine[i][2].v, y |-> mine[i][3].v,
                     w |-> mine[i][4].v, h |-> mine[i][5].v]]]

\* C12, as stated: a non-conforming group (not 5 fields, or a field that is
\* not numeric) yields no RawBox and changes nothing of the RawBoxes of the
\* conforming groups of the document, which appear per page in document order.
C12_NonConformingSkipped ==
    (dcPc = "parsed" /\ dcMarkup.wellformed) => dcBoxes = ConformingBoxes(dcMarkup)

\* a FinalRect whose page is one of the document's pages
WithinDocument(c, npages) == 1 <= c.page /\ c.page <= npages

\* C15, as stated: with a non-empty FinalRect list, a fill is drawn for
\* exactly the FinalRects whose page is within the document, and the count of
\* the success message is the number of fills drawn.
C15_DrawnInBoundsAndCounted ==
    (dcPc = "done" /\ dcRun.coords # <<>> /\ dcRun.res.kind = "return" /\ dcRun.res.ok) =>
        \E expected \in {SelectSeq(dcRun.coords,
                                   LAMBDA c : WithinDocument(c, PageCount(dcSrc)))} :
            /\ dcRun.out = Redacted(dcSrc, [i \in 1..Len(expected) |-> Padded(expected[i])])
            /\ dcRun.res.n = Len(expected)

\* the rectangle c bounds exactly some boxes of bs
BoundsSomeOf(c, bs) ==
    \E I \in SUBSET (1..Len(bs)) :
        /\ I # {}
        /\ c.x0 = MinOf({bs[i].x : i \in I})
        /\ c.y0 = MinOf({bs[i].y : i \in I})
        /\ c.x1 = MaxOf({bs[i].x + bs[i].w : i \in I})
        /\ c.y1 = MaxOf({bs[i].y + bs[i].h : i \in I})

\* C16, as stated: every RawBox the parser produces has page >= 1, and the
\* boxes of one cluster are boxes of one page (each region bounds boxes of
\* the page it is drawn on).
C16_PagesFromOneUp ==
    /\ dcPc = "parsed" => \A p \in DOMAIN dcBoxes : p >= 1
    /\ dcPc = "done" =>
           \A i \in 1..Len(dcRun.coords) :
               /\ dcRun.coords[i].page \in DOMAIN dcBoxes
               /\ BoundsSomeOf(dcRun.coords[i], dcBoxes[dcRun.coords[i].page])

=============================================================================
